---------------------------- MODULE Spec2Model ----------------------------
(***************************************************************************)
(* Model of the ROI editing engine of the image viewer                     *)
(* (src/imageviewer.py, src/roi.py): the tool controller, the pointer      *)
(* gestures of every tool, the programmatic ROI interface and the          *)
(* viewport.  One action per event handler; coordinates are integers.      *)
(***************************************************************************)
EXTENDS Integers, FiniteSets, Sequences, TLC

(***************************************************************************)
(* Bounds of the model                                                     *)
(***************************************************************************)
\* number of ROI items ever constructed (add_roi and copies together)
MaxRois == 3
\* largest |x|, |y| an item position may reach by panning
MaxPan == 4
\* largest |n| of the view scale 1.2^n
MaxZoom == 1
\* number of events (key, button, pointer, call) in one run
MaxEvents == 7
\* number of pointer events on an item in one run of the resize model
MaxResizeEvents == 4

(***************************************************************************)
(* Program constants                                                       *)
(***************************************************************************)
\* roi.py: class attributes of QGraphicsRoiItem
handleSize == 0
handleSpace == 4
\* roi.py: handleSize of an item that has the focus (focusInEvent)
handleSizeFocused == 8
\* roi.py: the eight resize handles
handleTopLeft == 1
handleTopMiddle == 2
handleTopRight == 3
handleMiddleLeft == 4
handleMiddleRight == 5
handleBottomLeft == 6
handleBottomMiddle == 7
handleBottomRight == 8
Handles == handleTopLeft..handleBottomRight

\* The tools of the table _tool_function that a button can select
Tools == {"Arrow", "Rect", "Ellipse", "Zoom", "Pan"}
\* keys of _tool_function ("Fit" is a key, but never the current tool)
ToolKeys == Tools \cup {"Fit"}
\* RoiType
RoiTypes == {"Rect", "Ellipse"}
\* keyboard modifiers delivered with a pointer event
Modifiers == {"NoModifier", "ControlModifier", "AltModifier"}

\* scene positions a pointer event may carry (event.scenePos())
Points == {<<0, 0>>, <<4, 4>>}
\* coordinates of the pointer events an item gets while it is resized
ResizeCoords == {-6, -5, 0, 5, 10}
ResizePoints == ResizeCoords \X ResizeCoords
\* the rectangle of the ROI that is resized
ResizeRects == {[x |-> 0, y |-> 0, w |-> 10, h |-> 10]}
\* rectangles add_roi is called with from outside
ApiRects == {[x |-> 4, y |-> 4, w |-> 4, h |-> 4]}

\* the identities of the items
Ids == 1..MaxRois

\* no item: the global drawing_roi before the first draw press
None == 0

Abs(n) == IF n < 0 THEN -n ELSE n
Min(a, b) == IF a < b THEN a ELSE b

VARIABLES
    current_tool,        \* _current_tool
    last_tool,           \* _last_tool
    temporary_pan_flag,  \* temporary_pan_flag
    panning,             \* _panning  {"flag","x","y"}
    drawing,             \* _drawing  {"flag","x","y"}
    selecting,           \* _selecting {"flag","x","y","rect"}
    rois,                \* _rois: set of item ids
    duplicated_rois,     \* _duplicated_rois: set of item ids
    item,                \* the QGraphicsRoiItem objects constructed so far
    drawing_roi,         \* the module global drawing_roi (None before a draw)
    pix_map_pos,         \* pix_map_item.pos()
    text_group_pos,      \* text_group.pos()
    view_scale,          \* n, the view matrix scale being 1.2^n
    buttons,             \* TRUE while the mouse button is held (event source)
    last_event,          \* history: the handler that ran last
    gesture,             \* history: the state at the press of the gesture
    pan_key,             \* history: the temporary-pan key and the tool due
    events               \* number of events handled so far

vars == <<current_tool, last_tool, temporary_pan_flag, panning, drawing,
          selecting, rois, duplicated_rois, item, drawing_roi, pix_map_pos,
          text_group_pos, view_scale, buttons, last_event, gesture,
          pan_key, events>>

ctl == <<current_tool, last_tool, temporary_pan_flag>>
flags == <<panning, drawing, selecting>>
layers == <<pix_map_pos, text_group_pos>>
scene == <<rois, duplicated_rois, item, drawing_roi>>

NoGesture == [kind |-> "none", done |-> FALSE]

(***************************************************************************)
(* QGraphicsRoiItem: the fields of one item and the methods the viewer     *)
(* calls on it                                                             *)
(***************************************************************************)
\* QGraphicsRoiItem(roi_type, x, y, width, height): position (0, 0), not
\* selected, and mutable (the constructor ends with set_mutable(True))
NewRoiItem(roi_type, x, y, w, h) ==
    [roi_type |-> roi_type, x |-> x, y |-> y, w |-> w, h |-> h,
     px |-> 0, py |-> 0,
     selected |-> FALSE, show_handle |-> FALSE, mutable |-> TRUE,
     handleSelected |-> None, mousePressPos |-> None, mousePressRect |-> None]

\* rect(): the rectangle in item coordinates
rect(it) == [x |-> it.x, y |-> it.y, w |-> it.w, h |-> it.h]

\* boundingRect(): rect() grown by the handle margin on every side
boundingRect(it) ==
    LET o == handleSize + handleSpace
    IN  [x |-> it.x - o, y |-> it.y - o, w |-> it.w + 2 * o, h |-> it.h + 2 * o]

\* sceneBoundingRect(): boundingRect() mapped to the scene by the position
sceneBoundingRect(it) ==
    LET b == boundingRect(it)
    IN  [x |-> b.x + it.px, y |-> b.y + it.py, w |-> b.w, h |-> b.h]

\* the item's own rectangle in scene coordinates (rect() moved by pos())
sceneRect(it) == [x |-> it.x + it.px, y |-> it.y + it.py, w |-> it.w, h |-> it.h]

\* setSelected(b): only an item with ItemIsSelectable can become selected
setSelected(it, b) == [it EXCEPT !.selected = b /\ it.mutable]

\* set_show_handle(b): a plain setter
set_show_handle(it, b) == [it EXCEPT !.show_handle = b]

\* set_mutable(status): hover, mouse buttons and the movable / selectable /
\* focusable flags all follow status; an item that stops being selectable
\* stops being selected
set_mutable(it, status) ==
    [it EXCEPT !.mutable = status, !.selected = it.selected /\ status]

\* moveBy(dx, dy)
moveBy(it, dx, dy) == [it EXCEPT !.px = it.px + dx, !.py = it.py + dy]

\* setRect(x, y, width, height)
setRect(it, x, y, w, h) == [it EXCEPT !.x = x, !.y = y, !.w = w, !.h = h]

\* QRectF(x, y, width, height)
QRectF(x, y, w, h) == [x |-> x, y |-> y, w |-> w, h |-> h]

\* an overlap test that looks from rect1 only: what C21 rules out
is_overlap_OneSided(rect1, rect2) ==
    /\ rect1.x + rect1.w > rect2.x
    /\ rect1.y + rect1.h > rect2.y

\* an overlap test that counts a shared boundary: what C20 rules out
is_overlap_Closed(rect1, rect2) ==
    /\ rect1.x + rect1.w >= rect2.x
    /\ rect2.x + rect2.w >= rect1.x
    /\ rect1.y + rect1.h >= rect2.y
    /\ rect2.y + rect2.h >= rect1.y

\* is_overlap(rect1, rect2)
is_overlap(rect1, rect2) ==
    /\ rect1.x + rect1.w > rect2.x
    /\ rect2.x + rect2.w > rect1.x
    /\ rect1.y + rect1.h > rect2.y
    /\ rect2.y + rect2.h > rect1.y

\* the test _arrow makes of a press point against one ROI
InRoi(it, p) == is_overlap(sceneBoundingRect(it), QRectF(p[1], p[2], 0, 0))

\* the id the next constructed item gets
NextId == Cardinality(DOMAIN item) + 1

\* isSelected() over a set of items
SelectedIn(S, its) == {r \in S : its[r].selected}

\* history kept for the gesture in progress: the tool and point of its
\* press, the ROIs, their number, the number selected and their scene
\* rectangles just before the press, the number of selectable ROIs the
\* press point is in, whether it is in no ROI at all, the point of the last
\* pointer event, the positions of the image and the texts just before the
\* press, the modifier of the release once it has come (zoom), and for a
\* duplication the ROI each copy was made from
Before(kind, p, src) ==
    [kind |-> kind, done |-> FALSE, p |-> p, still |-> TRUE, at |-> p,
     band |-> \A r \in rois : ~InRoi(item[r], p),
     layers0 |-> <<pix_map_pos, text_group_pos>>, mod |-> "NoModifier",
     n0 |-> Cardinality(rois), ksel |-> Cardinality(SelectedIn(rois, item)),
     hit |-> Cardinality({r \in rois : item[r].mutable /\ InRoi(item[r], p)}),
     pre |-> [r \in rois |-> sceneRect(item[r])], src |-> src]

GestureMove(p) ==
    IF gesture.kind = "none" \/ gesture.done THEN NoGesture
    ELSE [gesture EXCEPT !.still = gesture.still /\ p = gesture.p, !.at = p]

GestureRelease ==
    IF gesture.kind = "none" THEN gesture ELSE [gesture EXCEPT !.done = TRUE]

GestureReleaseWith(m) ==
    IF gesture.kind = "none" THEN gesture
    ELSE [gesture EXCEPT !.done = TRUE, !.mod = m]

GestureReleaseAt(p) ==
    IF gesture.kind = "none" THEN gesture
    ELSE [gesture EXCEPT !.done = TRUE, !.at = p]

(***************************************************************************)
(* Initial state: QImageViewer.__init__                                    *)
(***************************************************************************)
Init ==
    /\ current_tool = "Arrow"
    /\ last_tool = ""
    /\ temporary_pan_flag = FALSE
    /\ panning = [flag |-> FALSE, x |-> 0, y |-> 0]
    /\ drawing = [flag |-> FALSE, x |-> 0, y |-> 0]
    /\ selecting = [flag |-> FALSE, x |-> 0, y |-> 0, rect |-> QRectF(0, 0, 0, 0)]
    /\ rois = {}
    /\ duplicated_rois = {}
    /\ item = << >>
    /\ drawing_roi = None
    /\ pix_map_pos = <<0, 0>>
    /\ text_group_pos = <<0, 0>>
    /\ view_scale = 0
    /\ buttons = FALSE
    /\ last_event = "init"
    /\ gesture = NoGesture
    /\ pan_key = [held |-> FALSE, matched |-> FALSE, clicked |-> FALSE,
                  restore |-> "", first |-> ""]
    /\ events = 0

\* one more event is handled
Tick == events < MaxEvents /\ events' = events + 1

(***************************************************************************)
(* Tool controller: keyPressEvent, keyReleaseEvent, _check_button          *)
(***************************************************************************)
\* keyPressEvent, Key_Space, not auto-repeat: start temporary pan
KeyPressSpace ==
    /\ last_tool' = current_tool
    /\ current_tool' = "Pan"
    /\ temporary_pan_flag' = TRUE
    /\ last_event' = "space_press"
    /\ Tick
    /\ gesture' = NoGesture
    /\ pan_key' = [held |-> TRUE, matched |-> FALSE, clicked |-> FALSE,
                   restore |-> current_tool,
                   first |-> IF pan_key.held THEN pan_key.first ELSE current_tool]
    /\ UNCHANGED <<flags, scene, layers, view_scale, buttons>>

\* a release that leaves the tool as it is: what C6 rules out
RestoredTool_Kept == current_tool

\* the tool a Key_Space release makes current
RestoredTool == last_tool

\* keyPressEvent / keyReleaseEvent with isAutoRepeat(): the event is ignored
KeyAutoRepeat ==
    /\ last_event' = "auto_repeat"
    /\ Tick
    /\ UNCHANGED <<ctl, flags, scene, layers, view_scale, buttons, gesture, pan_key>>

\* keyReleaseEvent, Key_Space, not auto-repeat: stop temporary pan.  The
\* tool function is then called with the key event, whose type is none of
\* the three mouse types: it changes nothing; an unknown tool name raises
\* KeyError, which is caught.
KeyReleaseSpace ==
    /\ current_tool' = RestoredTool
    /\ temporary_pan_flag' = FALSE
    /\ last_event' = "space_release"
    /\ Tick
    /\ gesture' = NoGesture
    /\ pan_key' = [pan_key EXCEPT !.held = FALSE, !.matched = pan_key.held]
    /\ UNCHANGED <<last_tool, flags, scene, layers, view_scale, buttons>>

\* _check_button(btn), btn one of the five checkable tool buttons
CheckButton(b) ==
    /\ IF temporary_pan_flag
       THEN /\ last_tool' = b
            /\ UNCHANGED <<current_tool, item>>
       ELSE /\ last_tool' = b
            /\ current_tool' = b
            /\ item' = [r \in DOMAIN item |->
                          IF r \in rois THEN set_mutable(item[r], b = "Arrow")
                          ELSE item[r]]
    /\ last_event' = "button"
    /\ Tick
    /\ gesture' = NoGesture
    /\ pan_key' = IF pan_key.held
                  THEN [pan_key EXCEPT !.restore = b, !.first = b, !.clicked = TRUE]
                  ELSE pan_key
    /\ UNCHANGED <<temporary_pan_flag, flags, rois, duplicated_rois,
                   drawing_roi, layers, view_scale, buttons>>

\* a reset that leaves a layer where it is: what C19 rules out
FitPos_Kept(pos) == pos

\* zoom_fit: the position setPos gives a layer that is at pos
FitPos(pos) == <<0, 0>>

\* zoom_fit: the Fit button, resizeEvent and changeEvent; resetMatrix makes
\* the scale 1 = 1.2^0
ZoomFit ==
    /\ view_scale' = 0
    /\ pix_map_pos' = FitPos(pix_map_pos)
    /\ text_group_pos' = FitPos(text_group_pos)
    /\ last_event' = "fit"
    /\ Tick
    /\ gesture' = NoGesture
    /\ UNCHANGED <<ctl, flags, scene, buttons, pan_key>>

(***************************************************************************)
(* Programmatic ROI interface                                              *)
(***************************************************************************)
\* an add_roi that leaves the new item as constructed, mutable: what C24
\* rules out
add_roi_Mutable(roi_type, x, y, w, h) ==
    [r \in 1..NextId |->
        IF r = NextId THEN NewRoiItem(roi_type, x, y, w, h) ELSE item[r]]

\* the items after add_roi(roi_type, x, y, width, height): the new item is
\* made immutable
add_roi(roi_type, x, y, w, h) ==
    [r \in 1..NextId |->
        IF r = NextId THEN set_mutable(NewRoiItem(roi_type, x, y, w, h), FALSE)
        ELSE item[r]]

\* add_roi called from outside the widget
AddRoi(roi_type, r0) ==
    /\ NextId <= MaxRois
    /\ item' = add_roi(roi_type, r0.x, r0.y, r0.w, r0.h)
    /\ rois' = rois \cup {NextId}
    /\ last_event' = "add_roi"
    /\ Tick
    /\ gesture' = NoGesture
    /\ UNCHANGED <<ctl, flags, duplicated_rois, drawing_roi, layers,
                   view_scale, buttons, pan_key>>

(***************************************************************************)
(* QGraphicsRoiItem: resizing by a handle (mousePressEvent, mouseMoveEvent, *)
(* mouseReleaseEvent, interactive_resize).  Points are in item coordinates.*)
(***************************************************************************)
\* QRectF: the edges and their setters (the opposite edge stays)
left(r) == r.x
right(r) == r.x + r.w
top(r) == r.y
bottom(r) == r.y + r.h
setLeft(r, v) == [r EXCEPT !.x = v, !.w = r.w + r.x - v]
setRight(r, v) == [r EXCEPT !.w = v - r.x]
setTop(r, v) == [r EXCEPT !.y = v, !.h = r.h + r.y - v]
setBottom(r, v) == [r EXCEPT !.h = v - r.y]

\* update_handles_pos: the handle squares of side s, in doubled coordinates
\* (b.center() may fall on a half unit)
handles(it, s) ==
    LET b == boundingRect(it)
        l2 == 2 * left(b)
        t2 == 2 * top(b)
        r2 == 2 * right(b)
        b2 == 2 * bottom(b)
        cx2 == 2 * b.x + b.w
        cy2 == 2 * b.y + b.h
        s2 == 2 * s
    IN  [k \in Handles |->
           CASE k = handleTopLeft -> QRectF(l2, t2, s2, s2)
             [] k = handleTopMiddle -> QRectF(cx2 - s, t2, s2, s2)
             [] k = handleTopRight -> QRectF(r2 - s2, t2, s2, s2)
             [] k = handleMiddleLeft -> QRectF(l2, cy2 - s, s2, s2)
             [] k = handleMiddleRight -> QRectF(r2 - s2, cy2 - s, s2, s2)
             [] k = handleBottomLeft -> QRectF(l2, b2 - s2, s2, s2)
             [] k = handleBottomMiddle -> QRectF(cx2 - s, b2 - s2, s2, s2)
             [] k = handleBottomRight -> QRectF(r2 - s2, b2 - s2, s2, s2)]

\* QRectF.contains(point), the rectangle in doubled coordinates: edges
\* count, a rectangle without width or height contains nothing
contains(r, point) ==
    /\ r.w # 0 /\ r.h # 0
    /\ r.x <= 2 * point[1] /\ 2 * point[1] <= r.x + r.w
    /\ r.y <= 2 * point[2] /\ 2 * point[2] <= r.y + r.h

\* handle_at(point): the first handle, in the order of the dict, whose
\* square contains the point, or None
handle_at(it, s, point) ==
    LET hit == {k \in Handles : contains(handles(it, s)[k], point)}
    IN  IF hit = {} THEN None ELSE CHOOSE k \in hit : \A j \in hit : k <= j

\* a resize that keeps a width or height below zero as it is: what C16
\* rules out
NormalizedRect_Raw(r) == r

\* interactive_resize, lines 239-243: the case of width or height < 0
NormalizedRect(r) ==
    LET width == Abs(r.w)
        height == Abs(r.h)
    IN  QRectF(IF r.w > 0 THEN r.x ELSE r.x - width,
               IF r.h > 0 THEN r.y ELSE r.y - height, width, height)

\* interactive_resize(mouse_pos): the edges the grabbed handle owns are put
\* where they were at the press, moved by the way of the pointer since
CandidateRect(it, mouse_pos) ==
    LET offset == handleSize + handleSpace
        k == it.handleSelected
        dx == mouse_pos[1] - it.mousePressPos[1]
        dy == mouse_pos[2] - it.mousePressPos[2]
        L == left(it.mousePressRect) + dx + offset
        R == right(it.mousePressRect) + dx - offset
        T == top(it.mousePressRect) + dy + offset
        B == bottom(it.mousePressRect) + dy - offset
        r0 == rect(it)
    IN  CASE k = handleTopLeft -> setTop(setLeft(r0, L), T)
          [] k = handleTopMiddle -> setTop(r0, T)
          [] k = handleTopRight -> setTop(setRight(r0, R), T)
          [] k = handleMiddleLeft -> setLeft(r0, L)
          [] k = handleMiddleRight -> setRight(r0, R)
          [] k = handleBottomLeft -> setBottom(setLeft(r0, L), B)
          [] k = handleBottomMiddle -> setBottom(r0, B)
          [] k = handleBottomRight -> setBottom(setRight(r0, R), B)
          [] OTHER -> r0

interactive_resize(it, mouse_pos) ==
    LET r == NormalizedRect(CandidateRect(it, mouse_pos))
    IN  setRect(it, r.x, r.y, r.w, r.h)

\* mouse_event.pos(): the scene point in item coordinates
mapFromScene(it, p) == <<p[1] - it.px, p[2] - it.py>>

\* one more pointer event of the resize model is handled
TickResize == events < MaxResizeEvents /\ events' = events + 1

\* mousePressEvent of a mutable ROI of the Arrow tool, pressed inside its
\* bounding rectangle (so that _arrow, which sees the press first, starts no
\* rubber band); the item may or may not have the focus by then
ItemMousePress(r, p, focused) ==
    /\ current_tool = "Arrow"
    /\ r \in rois /\ item[r].mutable
    /\ ~buttons /\ ~selecting.flag /\ duplicated_rois = {}
    /\ InRoi(item[r], p)
    /\ buttons' = TRUE
    /\ LET s == IF focused THEN handleSizeFocused ELSE handleSize
           k == handle_at(item[r], s, mapFromScene(item[r], p))
       IN  item' = [item EXCEPT ![r] =
                      IF k # None
                      THEN [item[r] EXCEPT
                              !.handleSelected = k,
                              !.mousePressPos = mapFromScene(item[r], p),
                              !.mousePressRect = boundingRect(item[r])]
                      ELSE [item[r] EXCEPT !.handleSelected = k]]
    /\ last_event' = "item_press"
    /\ TickResize
    /\ gesture' = Before("resize", p, << >>)
    /\ UNCHANGED <<ctl, flags, rois, duplicated_rois, drawing_roi, layers,
                   view_scale, pan_key>>

\* mouseMoveEvent of the ROI while the button is held: resize by the grabbed
\* handle; without one the event goes to QGraphicsRectItem
ItemMouseMove(r, p) ==
    /\ current_tool = "Arrow"
    /\ r \in rois /\ item[r].mutable
    /\ buttons /\ ~selecting.flag
    /\ item' = [item EXCEPT ![r] =
                   IF item[r].handleSelected # None
                   THEN interactive_resize(item[r], mapFromScene(item[r], p))
                   ELSE item[r]]
    /\ last_event' = "item_move"
    /\ TickResize
    /\ gesture' = GestureMove(p)
    /\ UNCHANGED <<ctl, flags, rois, duplicated_rois, drawing_roi, layers,
                   view_scale, buttons, pan_key>>

\* mouseMoveEvent of an ROI that was made immutable after its press: the
\* handler tests handleSelected only
ItemMouseMoveGrabbed(r, p) ==
    /\ r \in rois /\ ~item[r].mutable
    /\ buttons
    /\ item' = [item EXCEPT ![r] =
                   IF item[r].handleSelected # None
                   THEN interactive_resize(item[r], mapFromScene(item[r], p))
                   ELSE item[r]]
    /\ last_event' = "item_move"
    /\ TickResize
    /\ gesture' = GestureMove(p)
    /\ UNCHANGED <<ctl, flags, rois, duplicated_rois, drawing_roi, layers,
                   view_scale, buttons, pan_key>>

\* mouseReleaseEvent of the ROI
ItemMouseRelease(r) ==
    /\ current_tool = "Arrow"
    /\ r \in rois /\ item[r].mutable
    /\ buttons /\ ~selecting.flag /\ duplicated_rois = {}
    /\ buttons' = FALSE
    /\ item' = [item EXCEPT ![r] =
                   [item[r] EXCEPT !.handleSelected = None,
                                   !.mousePressPos = None,
                                   !.mousePressRect = None]]
    /\ last_event' = "item_release"
    /\ TickResize
    /\ gesture' = GestureRelease
    /\ UNCHANGED <<ctl, flags, rois, duplicated_rois, drawing_roi, layers,
                   view_scale, pan_key>>

\* a removal that empties the set, as clear_roi does: what C13 rules out
remove_rois_All(S) == {}

\* _rois after remove_rois(S)
remove_rois(S) == rois \ S

\* remove_roi(roi) called from outside with any item constructed so far:
\* set.remove raises KeyError for an item that is not in _rois, and the
\* exception leaves the method
RemoveRoi(r) ==
    /\ r \in DOMAIN item
    /\ IF r \in rois
       THEN rois' = rois \ {r} /\ last_event' = "remove"
       ELSE UNCHANGED rois /\ last_event' = "KeyError"
    /\ Tick
    /\ gesture' = NoGesture
    /\ UNCHANGED <<ctl, flags, duplicated_rois, item, drawing_roi, layers,
                   view_scale, buttons, pan_key>>

\* remove_rois(S) called from outside with any set of items constructed so far
RemoveRois(S) ==
    /\ S \subseteq DOMAIN item
    /\ rois' = remove_rois(S)
    /\ last_event' = "remove"
    /\ Tick
    /\ gesture' = NoGesture
    /\ UNCHANGED <<ctl, flags, duplicated_rois, item, drawing_roi, layers,
                   view_scale, buttons, pan_key>>

\* clear_roi() called from outside
ClearRoi ==
    /\ rois' = {}
    /\ last_event' = "clear"
    /\ Tick
    /\ gesture' = NoGesture
    /\ UNCHANGED <<ctl, flags, duplicated_rois, item, drawing_roi, layers,
                   view_scale, buttons, pan_key>>

\* keyReleaseEvent, Key_Delete, not auto-repeat: remove the selected ROIs
KeyReleaseDelete ==
    /\ rois' = remove_rois(SelectedIn(rois, item))
    /\ last_event' = "delete"
    /\ Tick
    /\ gesture' = NoGesture
    /\ UNCHANGED <<ctl, flags, duplicated_rois, item, drawing_roi, layers,
                   view_scale, buttons, pan_key>>

(***************************************************************************)
(* Arrow tool: _arrow                                                      *)
(***************************************************************************)
\* the ROIs whose scene bounding rectangle overlaps the point
RoisAt(its, p) == {r \in rois : InRoi(its[r], p)}

\* one copy made by _duplicate_roi
RoiCopy(it) ==
    NewRoiItem(it.roi_type, sceneBoundingRect(it).x, sceneBoundingRect(it).y,
               rect(it).w, rect(it).h)

\* position of r among the members of S
Rank(r, S) == Cardinality({q \in S : q < r})

\* _duplicate_roi: the selected ROI each new id is the copy of
CopySource(its) ==
    LET sel == SelectedIn(rois, its)
    IN  [n \in NextId..(NextId + Cardinality(sel) - 1) |->
            CHOOSE r \in sel : Rank(r, sel) = n - NextId]

\* GraphicsSceneMousePress with the Control modifier: duplicate
ArrowPressControl(p) ==
    LET under == RoisAt(item, p)
        firsts == IF SelectedIn(rois, item) = {} /\ under # {} THEN under ELSE {None}
    IN  \E f \in firsts :
          LET its1 == IF f = None THEN item
                      ELSE [item EXCEPT ![f] = setSelected(item[f], TRUE)]
              src == CopySource(its1)
              new == DOMAIN src
          IN  /\ NextId + Cardinality(new) - 1 <= MaxRois
              /\ duplicated_rois' = new
              /\ item' = [r \in (DOMAIN item) \cup new |->
                            IF r \in new
                            THEN set_show_handle(setSelected(RoiCopy(its1[src[r]]), TRUE), FALSE)
                            ELSE IF r \in rois
                            THEN set_show_handle(setSelected(its1[r], FALSE), FALSE)
                            ELSE its1[r]]
              /\ gesture' = Before("duplicate", p, src)
              /\ UNCHANGED <<selecting, rois>>

\* GraphicsSceneMousePress without it: start the rubber band unless the
\* press is in an ROI
ArrowPressPlain(p, m) ==
    /\ IF RoisAt(item, p) = {}
       THEN selecting' = [flag |-> TRUE, x |-> p[1], y |-> p[2],
                          rect |-> QRectF(p[1], p[2], 0, 0)]
       ELSE UNCHANGED selecting
    /\ gesture' = Before("arrow", p, << >>)
    /\ UNCHANGED <<rois, duplicated_rois, item>>

ArrowPress(p, m) ==
    /\ current_tool = "Arrow"
    /\ ~buttons
    /\ buttons' = TRUE
    /\ IF m = "ControlModifier" THEN ArrowPressControl(p) ELSE ArrowPressPlain(p, m)
    /\ last_event' = "press"
    /\ Tick
    /\ UNCHANGED <<ctl, panning, drawing, drawing_roi, layers, view_scale, pan_key>>

\* the rubber band between the anchor and the current point
BandRect(p) ==
    QRectF(Min(selecting.x, p[1]), Min(selecting.y, p[2]),
           Abs(selecting.x - p[1]), Abs(selecting.y - p[2]))

\* the look of one ROI under the rubber band
BandSelect(it, band) ==
    IF is_overlap(sceneBoundingRect(it), band)
    THEN set_show_handle(setSelected(it, TRUE), TRUE)
    ELSE set_show_handle(setSelected(it, FALSE), FALSE)

\* GraphicsSceneMouseMove
ArrowMove(p) ==
    /\ current_tool = "Arrow"
    /\ IF selecting.flag
       THEN /\ selecting' = [selecting EXCEPT !.rect = BandRect(p)]
            /\ item' = [r \in DOMAIN item |->
                          IF r \in rois THEN BandSelect(item[r], BandRect(p))
                          ELSE item[r]]
       ELSE UNCHANGED <<selecting, item>>
    /\ last_event' = "move"
    /\ Tick
    /\ gesture' = GestureMove(p)
    /\ UNCHANGED <<ctl, panning, drawing, rois, duplicated_rois, drawing_roi,
                   layers, view_scale, buttons, pan_key>>

\* a release that drops the copies: what C4 rules out
MergedRois_Dropped == rois

\* a release that keeps the copies in place of the ROIs: what C25 rules out
MergedRois_Replaced == duplicated_rois

\* _rois after a release: the copies join the ROIs
MergedRois == rois \cup duplicated_rois

\* a release that takes every rubber band for a click: what C11 rules out
IsClick_AnyBand(p) == selecting.flag

\* the release ends a rubber band at its very anchor: a click in the background
IsClick(p) == selecting.flag /\ selecting.x = p[1] /\ selecting.y = p[2]

\* GraphicsSceneMouseRelease
ArrowRelease(p) ==
    /\ current_tool = "Arrow"
    /\ buttons
    /\ buttons' = FALSE
    /\ LET click == IsClick(p)
           its1 == [r \in DOMAIN item |->
                      IF click /\ r \in rois
                      THEN set_show_handle(setSelected(item[r], FALSE), FALSE)
                      ELSE item[r]]
       IN  item' = [r \in DOMAIN item |->
                      IF r \in duplicated_rois
                      THEN set_show_handle(setSelected(its1[r], FALSE), FALSE)
                      ELSE its1[r]]
    /\ selecting' = [selecting EXCEPT !.flag = FALSE]
    /\ rois' = MergedRois
    /\ duplicated_rois' = {}
    /\ last_event' = "release"
    /\ Tick
    /\ gesture' = GestureReleaseAt(p)
    /\ UNCHANGED <<ctl, panning, drawing, drawing_roi, layers, view_scale, pan_key>>

(***************************************************************************)
(* Rect and Ellipse tools: _draw_roi                                       *)
(***************************************************************************)
\* GraphicsSceneMousePress: add a zero-size ROI at the press point
DrawPress(p) ==
    /\ current_tool \in RoiTypes
    /\ ~buttons
    /\ buttons' = TRUE
    /\ NextId <= MaxRois
    /\ item' = add_roi(current_tool, p[1], p[2], 0, 0)
    /\ rois' = rois \cup {NextId}
    /\ drawing_roi' = NextId
    /\ drawing' = [flag |-> TRUE, x |-> p[1], y |-> p[2]]
    /\ last_event' = "press"
    /\ Tick
    /\ gesture' = Before("draw", p, << >>)
    /\ UNCHANGED <<ctl, panning, selecting, duplicated_rois, layers,
                   view_scale, pan_key>>

\* a move that never gives a rectangle narrower than 1: what C9 rules out
DrawRect_Widened(p) ==
    QRectF(IF p[1] > drawing.x THEN drawing.x ELSE p[1],
           IF p[2] > drawing.y THEN drawing.y ELSE p[2],
           Abs(p[1] - drawing.x) + 1, Abs(p[2] - drawing.y))

\* the rectangle _draw_roi gives drawing_roi on a move to p
DrawRect(p) ==
    QRectF(IF p[1] > drawing.x THEN drawing.x ELSE p[1],
           IF p[2] > drawing.y THEN drawing.y ELSE p[2],
           Abs(p[1] - drawing.x), Abs(p[2] - drawing.y))

\* GraphicsSceneMouseMove
DrawMove(p) ==
    /\ current_tool \in RoiTypes
    /\ IF drawing.flag
       THEN item' = [item EXCEPT ![drawing_roi] =
                        setRect(@, DrawRect(p).x, DrawRect(p).y,
                                DrawRect(p).w, DrawRect(p).h)]
       ELSE UNCHANGED item
    /\ last_event' = "move"
    /\ Tick
    /\ gesture' = GestureMove(p)
    /\ UNCHANGED <<ctl, flags, rois, duplicated_rois, drawing_roi, layers,
                   view_scale, buttons, pan_key>>

\* GraphicsSceneMouseRelease
DrawRelease ==
    /\ current_tool \in RoiTypes
    /\ buttons
    /\ buttons' = FALSE
    /\ drawing' = [drawing EXCEPT !.flag = FALSE]
    /\ last_event' = "release"
    /\ Tick
    /\ gesture' = GestureRelease
    /\ UNCHANGED <<ctl, panning, selecting, scene, layers, view_scale, pan_key>>

(***************************************************************************)
(* Pan tool: _pan                                                          *)
(***************************************************************************)
\* GraphicsSceneMousePress
PanPress(p) ==
    /\ current_tool = "Pan"
    /\ ~buttons
    /\ buttons' = TRUE
    /\ panning' = [flag |-> TRUE, x |-> p[1], y |-> p[2]]
    /\ last_event' = "press"
    /\ Tick
    /\ gesture' = Before("pan", p, << >>)
    /\ UNCHANGED <<ctl, drawing, selecting, scene, layers, view_scale, pan_key>>

InPanRange(x, y) == Abs(x) <= MaxPan /\ Abs(y) <= MaxPan

\* a step measured from the scene origin: what C12 rules out
PanStep_FromOrigin(p) == <<p[1], p[2]>>

\* the step (dx, dy) of one move: from the last recorded point to p
PanStep(p) == <<p[1] - panning.x, p[2] - panning.y>>

\* GraphicsSceneMouseMove: the image, the texts and every ROI move by the
\* step since the last recorded point
PanMove(p) ==
    /\ current_tool = "Pan"
    /\ IF panning.flag
       THEN LET dx == PanStep(p)[1]
                dy == PanStep(p)[2]
            IN  /\ pix_map_pos' = <<pix_map_pos[1] + dx, pix_map_pos[2] + dy>>
                /\ text_group_pos' = <<text_group_pos[1] + dx, text_group_pos[2] + dy>>
                /\ item' = [r \in DOMAIN item |->
                              IF r \in rois THEN moveBy(item[r], dx, dy) ELSE item[r]]
                /\ panning' = [panning EXCEPT !.x = p[1], !.y = p[2]]
                /\ InPanRange(pix_map_pos'[1], pix_map_pos'[2])
                /\ InPanRange(text_group_pos'[1], text_group_pos'[2])
                /\ \A r \in rois : InPanRange(item'[r].px, item'[r].py)
       ELSE UNCHANGED <<layers, item, panning>>
    /\ last_event' = "move"
    /\ Tick
    /\ gesture' = GestureMove(p)
    /\ UNCHANGED <<ctl, drawing, selecting, rois, duplicated_rois, drawing_roi,
                   view_scale, buttons, pan_key>>

\* GraphicsSceneMouseRelease
PanRelease ==
    /\ current_tool = "Pan"
    /\ buttons
    /\ buttons' = FALSE
    /\ panning' = [flag |-> FALSE, x |-> 0, y |-> 0]
    /\ last_event' = "release"
    /\ Tick
    /\ gesture' = GestureRelease
    /\ UNCHANGED <<ctl, drawing, selecting, scene, layers, view_scale, pan_key>>

(***************************************************************************)
(* Zoom tool: zoom                                                         *)
(***************************************************************************)
\* press and move only set the cursor
ZoomPress(p) ==
    /\ current_tool = "Zoom"
    /\ ~buttons
    /\ buttons' = TRUE
    /\ last_event' = "press"
    /\ Tick
    /\ gesture' = Before("zoom", p, << >>)
    /\ UNCHANGED <<ctl, flags, scene, layers, view_scale, pan_key>>

ZoomMove(p) ==
    /\ current_tool = "Zoom"
    /\ last_event' = "move"
    /\ Tick
    /\ gesture' = GestureMove(p)
    /\ UNCHANGED <<ctl, flags, scene, layers, view_scale, buttons, pan_key>>

\* a zoom that only ever zooms in: what C18 rules out
ZoomFactor_InOnly(m) == 1

\* factor, as the exponent of 1.2: 1 / 1.2 with Alt, else 1.2
ZoomFactor(m) == IF m = "AltModifier" THEN -1 ELSE 1

\* GraphicsSceneMouseRelease: scale the view by the factor
ZoomRelease(m) ==
    /\ current_tool = "Zoom"
    /\ buttons
    /\ buttons' = FALSE
    /\ view_scale' = view_scale + ZoomFactor(m)
    /\ Abs(view_scale') <= MaxZoom
    /\ last_event' = "release"
    /\ Tick
    /\ gesture' = GestureReleaseWith(m)
    /\ UNCHANGED <<ctl, flags, scene, layers, pan_key>>

(***************************************************************************)
(* eventFilter with a tool name that is no key of _tool_function           *)
(***************************************************************************)
\* KeyError is caught: the event changes nothing
UnmappedToolEvent(ev) ==
    /\ current_tool \notin ToolKeys
    /\ \/ ev = "press" /\ ~buttons /\ buttons' = TRUE
       \/ ev = "move" /\ UNCHANGED buttons
       \/ ev = "release" /\ buttons /\ buttons' = FALSE
    /\ last_event' = ev
    /\ Tick
    /\ gesture' = NoGesture
    /\ UNCHANGED <<ctl, flags, scene, layers, view_scale, pan_key>>

(***************************************************************************)
(* Specification                                                           *)
(***************************************************************************)
Next ==
    \/ KeyPressSpace
    \/ KeyReleaseSpace
    \/ KeyAutoRepeat
    \/ \E b \in Tools : CheckButton(b)
    \/ ZoomFit
    \/ KeyReleaseDelete
    \/ \E t \in RoiTypes, r0 \in ApiRects : AddRoi(t, r0)
    \/ \E p \in Points, m \in Modifiers : ArrowPress(p, m)
    \/ \E p \in Points : ArrowMove(p)
    \/ \E p \in Points : ArrowRelease(p)
    \/ \E p \in Points : DrawPress(p)
    \/ \E p \in Points : DrawMove(p)
    \/ DrawRelease
    \/ \E p \in Points : PanPress(p)
    \/ \E p \in Points : PanMove(p)
    \/ PanRelease
    \/ \E p \in Points : ZoomPress(p)
    \/ \E p \in Points : ZoomMove(p)
    \/ \E m \in Modifiers : ZoomRelease(m)
    \/ \E ev \in {"press", "move", "release"} : UnmappedToolEvent(ev)

Spec == Init /\ [][Next]_vars

\* the widget with its removal interface called from outside as well
NextApi ==
    \/ Next
    \/ \E r \in Ids : RemoveRoi(r)
    \/ \E S \in SUBSET Ids : RemoveRois(S)
    \/ ClearRoi

SpecApi == Init /\ [][NextApi]_vars

\* the widget after add_roi and a click on the Arrow button: one mutable ROI
InitResize ==
    /\ current_tool = "Arrow"
    /\ last_tool = "Arrow"
    /\ temporary_pan_flag = FALSE
    /\ panning = [flag |-> FALSE, x |-> 0, y |-> 0]
    /\ drawing = [flag |-> FALSE, x |-> 0, y |-> 0]
    /\ selecting = [flag |-> FALSE, x |-> 0, y |-> 0, rect |-> QRectF(0, 0, 0, 0)]
    /\ rois = {1}
    /\ duplicated_rois = {}
    /\ \E t \in RoiTypes, r0 \in ResizeRects :
          item = <<NewRoiItem(t, r0.x, r0.y, r0.w, r0.h)>>
    /\ drawing_roi = None
    /\ pix_map_pos = <<0, 0>>
    /\ text_group_pos = <<0, 0>>
    /\ view_scale = 0
    /\ buttons = FALSE
    /\ last_event = "button"
    /\ gesture = NoGesture
    /\ pan_key = [held |-> FALSE, matched |-> FALSE, clicked |-> FALSE,
                  restore |-> "", first |-> ""]
    /\ events = 0

\* the pointer events of an ROI being resized
NextResize ==
    \/ \E r \in Ids, p \in ResizePoints, focused \in BOOLEAN :
          ItemMousePress(r, p, focused)
    \/ \E r \in Ids, p \in ResizePoints : ItemMouseMove(r, p)
    \/ \E r \in Ids : ItemMouseRelease(r)

SpecResize == InitResize /\ [][NextResize]_vars

\* the same with the tool buttons, which call set_mutable on every ROI
NextGrab ==
    \/ NextResize
    \/ \E b \in Tools : CheckButton(b)
    \/ \E r \in Ids, p \in ResizePoints : ItemMouseMoveGrabbed(r, p)

SpecGrab == InitResize /\ [][NextGrab]_vars

(***************************************************************************)
(* The Arrow tool with temporary pan                                       *)
(***************************************************************************)
\* the widget after add_roi and a click on the Arrow button: one mutable ROI
InitDup ==
    /\ current_tool = "Arrow"
    /\ last_tool = "Arrow"
    /\ temporary_pan_flag = FALSE
    /\ panning = [flag |-> FALSE, x |-> 0, y |-> 0]
    /\ drawing = [flag |-> FALSE, x |-> 0, y |-> 0]
    /\ selecting = [flag |-> FALSE, x |-> 0, y |-> 0, rect |-> QRectF(0, 0, 0, 0)]
    /\ rois = {1}
    /\ duplicated_rois = {}
    /\ \E t \in RoiTypes, r0 \in ApiRects :
          item = <<NewRoiItem(t, r0.x, r0.y, r0.w, r0.h)>>
    /\ drawing_roi = None
    /\ pix_map_pos = <<0, 0>>
    /\ text_group_pos = <<0, 0>>
    /\ view_scale = 0
    /\ buttons = FALSE
    /\ last_event = "button"
    /\ gesture = NoGesture
    /\ pan_key = [held |-> FALSE, matched |-> FALSE, clicked |-> FALSE,
                  restore |-> "", first |-> ""]
    /\ events = 0

\* the pointer events of Arrow and of Pan, and the space key
NextDup ==
    \/ KeyPressSpace
    \/ KeyReleaseSpace
    \/ \E p \in Points, m \in Modifiers : ArrowPress(p, m)
    \/ \E p \in Points : ArrowMove(p)
    \/ \E p \in Points : ArrowRelease(p)
    \/ \E p \in Points : PanPress(p)
    \/ \E p \in Points : PanMove(p)
    \/ PanRelease

SpecDup == InitDup /\ [][NextDup]_vars

\* two ROIs that both hold the point (4,4) inside
PickRects == <<[x |-> 0, y |-> 0, w |-> 8, h |-> 8], [x |-> 2, y |-> 2, w |-> 4, h |-> 4]>>

\* the widget after two calls of add_roi: two immutable ROIs, one on top of
\* the other
InitPick ==
    /\ current_tool = "Arrow"
    /\ last_tool = ""
    /\ temporary_pan_flag = FALSE
    /\ panning = [flag |-> FALSE, x |-> 0, y |-> 0]
    /\ drawing = [flag |-> FALSE, x |-> 0, y |-> 0]
    /\ selecting = [flag |-> FALSE, x |-> 0, y |-> 0, rect |-> QRectF(0, 0, 0, 0)]
    /\ rois = {1, 2}
    /\ duplicated_rois = {}
    /\ \E t \in RoiTypes :
          item = [r \in {1, 2} |->
                    set_mutable(NewRoiItem(t, PickRects[r].x, PickRects[r].y,
                                           PickRects[r].w, PickRects[r].h), FALSE)]
    /\ drawing_roi = None
    /\ pix_map_pos = <<0, 0>>
    /\ text_group_pos = <<0, 0>>
    /\ view_scale = 0
    /\ buttons = FALSE
    /\ last_event = "add_roi"
    /\ gesture = NoGesture
    /\ pan_key = [held |-> FALSE, matched |-> FALSE, clicked |-> FALSE,
                  restore |-> "", first |-> ""]
    /\ events = 0

\* the tool buttons and the pointer events of Arrow
NextPick ==
    \/ \E b \in Tools : CheckButton(b)
    \/ \E p \in Points, m \in Modifiers : ArrowPress(p, m)
    \/ \E p \in Points : ArrowMove(p)
    \/ \E p \in Points : ArrowRelease(p)

SpecPick == InitPick /\ [][NextPick]_vars

(***************************************************************************)
(* A draw tool with temporary pan                                          *)
(***************************************************************************)
\* pointer positions on all sides of one another
DrawPoints == {<<0, 0>>, <<0, 4>>, <<4, 0>>, <<4, 4>>}

\* the widget after a click on the Rect or the Ellipse button
InitDraw ==
    /\ \E t \in RoiTypes : current_tool = t /\ last_tool = t
    /\ temporary_pan_flag = FALSE
    /\ panning = [flag |-> FALSE, x |-> 0, y |-> 0]
    /\ drawing = [flag |-> FALSE, x |-> 0, y |-> 0]
    /\ selecting = [flag |-> FALSE, x |-> 0, y |-> 0, rect |-> QRectF(0, 0, 0, 0)]
    /\ rois = {}
    /\ duplicated_rois = {}
    /\ item = << >>
    /\ drawing_roi = None
    /\ pix_map_pos = <<0, 0>>
    /\ text_group_pos = <<0, 0>>
    /\ view_scale = 0
    /\ buttons = FALSE
    /\ last_event = "button"
    /\ gesture = NoGesture
    /\ pan_key = [held |-> FALSE, matched |-> FALSE, clicked |-> FALSE,
                  restore |-> "", first |-> ""]
    /\ events = 0

\* the pointer events of the draw tools and of Pan, and the space key
NextDraw ==
    \/ KeyPressSpace
    \/ KeyReleaseSpace
    \/ \E p \in DrawPoints : DrawPress(p)
    \/ \E p \in DrawPoints : DrawMove(p)
    \/ DrawRelease
    \/ \E p \in DrawPoints : PanPress(p)
    \/ \E p \in DrawPoints : PanMove(p)
    \/ PanRelease

SpecDraw == InitDraw /\ [][NextDraw]_vars

(***************************************************************************)
(* is_overlap as a function of its two arguments                           *)
(***************************************************************************)
\* the rects is_overlap is called with: empty, flat, proper and inverted ones
OverlapOrigins == {0, 5, 10}
OverlapSizes == {-10, 0, 10}
OverlapRects ==
    {QRectF(x, y, w, h) : x \in OverlapOrigins, y \in OverlapOrigins,
                          w \in OverlapSizes, h \in OverlapSizes}

\* a call of is_overlap(rect1, rect2) about to be made; gesture holds the
\* arguments and, once the call returned, the result
InitOverlap ==
    /\ current_tool = "Arrow"
    /\ last_tool = ""
    /\ temporary_pan_flag = FALSE
    /\ panning = [flag |-> FALSE, x |-> 0, y |-> 0]
    /\ drawing = [flag |-> FALSE, x |-> 0, y |-> 0]
    /\ selecting = [flag |-> FALSE, x |-> 0, y |-> 0, rect |-> QRectF(0, 0, 0, 0)]
    /\ rois = {}
    /\ duplicated_rois = {}
    /\ item = << >>
    /\ drawing_roi = None
    /\ pix_map_pos = <<0, 0>>
    /\ text_group_pos = <<0, 0>>
    /\ view_scale = 0
    /\ buttons = FALSE
    /\ last_event = "init"
    /\ \E rect1 \in OverlapRects, rect2 \in OverlapRects :
          gesture = [kind |-> "is_overlap", done |-> FALSE, rect1 |-> rect1,
                     rect2 |-> rect2, result |-> FALSE]
    /\ pan_key = [held |-> FALSE, matched |-> FALSE, clicked |-> FALSE,
                  restore |-> "", first |-> ""]
    /\ events = 0

\* the call returns
IsOverlapCall ==
    /\ gesture.kind = "is_overlap"
    /\ ~gesture.done
    /\ gesture' = [gesture EXCEPT !.done = TRUE,
                       !.result = is_overlap(gesture.rect1, gesture.rect2)]
    /\ last_event' = "is_overlap"
    /\ UNCHANGED <<ctl, flags, layers, scene, view_scale, buttons, pan_key,
                   events>>

NextOverlap == IsOverlapCall

SpecOverlap == InitOverlap /\ [][NextOverlap]_vars

(***************************************************************************)
(* Claims                                                                  *)
(***************************************************************************)
ActiveFlags ==
    {f \in {"draw", "pan", "select"} :
        \/ f = "draw" /\ drawing.flag
        \/ f = "pan" /\ panning.flag
        \/ f = "select" /\ selecting.flag}

\* C1: in every reachable state at most one of the draw, pan and
\* rubber-band select flags is true.
C1_AtMostOneGestureActive == Cardinality(ActiveFlags) <= 1

ToolSwitchEvents == {"button", "space_press", "space_release"}

\* C2: right after a tool switch (a tool button, the temporary-pan key
\* pressed or released) the draw, pan and select flags are all false and
\* the duplicate buffer is empty.
C2_ToolSwitchClearsTransientState ==
    last_event \in ToolSwitchEvents =>
        /\ ActiveFlags = {}
        /\ duplicated_rois = {}

\* C3: in every state reached right after a pointer release the duplicate
\* buffer is empty.
C3_DuplicateBufferEmptyAfterRelease ==
    last_event = "release" => duplicated_rois = {}

\* the numbers of ROIs a duplicate press may copy: the k selected ones; with
\* none selected, the one it picks under the pointer, if it picks one
CopiesDue ==
    IF gesture.ksel > 0 THEN {gesture.ksel}
    ELSE IF gesture.hit > 0 THEN {0, 1} ELSE {0}

C5_CopyHasSourceBounds ==
    (gesture.kind = "duplicate" /\ last_event = "press") =>
        \A n \in DOMAIN gesture.src :
            /\ item[n].roi_type = item[gesture.src[n]].roi_type
            /\ sceneRect(item[n]) = gesture.pre[gesture.src[n]]

\* C6: while the temporary-pan key is held the tool is Pan; the matching
\* release makes current the tool that was current at the press, or the
\* tool of the button clicked while the key was held.
C6_TemporaryPanRestoresTool ==
    /\ pan_key.held => current_tool = "Pan"
    /\ (last_event = "space_release" /\ pan_key.matched) =>
          current_tool = pan_key.restore

\* the key was released after a button click made while it was held
C6_Witness ==
    /\ last_event = "space_release"
    /\ pan_key.matched
    /\ pan_key.clicked
    /\ current_tool = "Rect"

\* C7: after the release the tool is the one that was current before the
\* first of several key presses that had no release in between.
C7_FirstPressRecordsTool ==
    (last_event = "space_release" /\ pan_key.matched) =>
        current_tool = pan_key.first

\* C8: an ROI is mutable only while the Arrow tool is current.
C8_MutableOnlyInArrow ==
    \A r \in rois : item[r].mutable => current_tool = "Arrow"

\* the ROIs a complete draw gesture added
DrawnRois == rois \ DOMAIN gesture.pre

\* C9: a complete draw gesture of the Rect or Ellipse tool adds exactly one
\* ROI of that kind, which is an ROI after the release; if the pointer never
\* left the press point its rectangle is (pressX, pressY, 0, 0).
C9_DrawGestureAddsOneRoi ==
    (gesture.kind = "draw" /\ gesture.done) =>
        /\ Cardinality(rois) = gesture.n0 + 1
        /\ DOMAIN gesture.pre \subseteq rois
        /\ \A r \in DrawnRois :
              /\ item[r].roi_type = current_tool
              /\ gesture.still =>
                    sceneRect(item[r]) = QRectF(gesture.p[1], gesture.p[2], 0, 0)

\* a draw gesture without movement has just ended, away from the origin
C9_Witness ==
    /\ gesture.kind = "draw"
    /\ gesture.done
    /\ gesture.still
    /\ gesture.p = <<4, 4>>
    /\ \E r \in DrawnRois : sceneRect(item[r]) = QRectF(4, 4, 0, 0)

\* C10: after a move of an active rubber band every ROI (that can be
\* selected at all) is selected exactly when its own rectangle overlaps the
\* band, and shows its handles exactly when it is selected.
C10_BandSelectsOverlappingRois ==
    (last_event = "move" /\ current_tool = "Arrow" /\ selecting.flag) =>
        \A r \in rois :
            item[r].mutable =>
                /\ item[r].selected = is_overlap(sceneRect(item[r]), selecting.rect)
                /\ item[r].show_handle = item[r].selected

PanTotal == <<gesture.at[1] - gesture.p[1], gesture.at[2] - gesture.p[2]>>

\* every ROI, the image and the texts are where they were at the press,
\* moved by d
PannedBy(d) ==
    /\ pix_map_pos = <<gesture.layers0[1][1] + d[1], gesture.layers0[1][2] + d[2]>>
    /\ text_group_pos = <<gesture.layers0[2][1] + d[1], gesture.layers0[2][2] + d[2]>>
    /\ \A r \in DOMAIN gesture.pre :
          /\ r \in rois
          /\ sceneRect(item[r]) =
                [gesture.pre[r] EXCEPT !.x = @ + d[1], !.y = @ + d[2]]

\* one move of an active pan moved every ROI, the image and the texts by the
\* same step, the new recorded point minus the last one
PanMovedAlike ==
    (current_tool = "Pan" /\ panning.flag /\ last_event' = "move") =>
        LET dx == panning'.x - panning.x
            dy == panning'.y - panning.y
        IN  /\ pix_map_pos' = <<pix_map_pos[1] + dx, pix_map_pos[2] + dy>>
            /\ text_group_pos' = <<text_group_pos[1] + dx, text_group_pos[2] + dy>>
            /\ \A r \in rois :
                  /\ item'[r].px = item[r].px + dx
                  /\ item'[r].py = item[r].py + dy
                  /\ rect(item'[r]) = rect(item[r])

C13_DeleteRemovesSelected ==
    [][last_event' = "delete" =>
          /\ rois' = {r \in rois : ~item[r].selected}
          /\ \A r \in rois' : sceneRect(item'[r]) = sceneRect(item[r])
          /\ SelectedIn(rois, item) = {} => rois' = rois]_vars

\* the Delete key has removed the selected ROI and left the other one
C13_Witness ==
    /\ last_event = "delete"
    /\ Cardinality(rois) = 1
    /\ Cardinality(DOMAIN item) = 2
    /\ duplicated_rois = {}
    /\ \E r \in DOMAIN item : r \notin rois /\ item[r].selected

\* C14: removal never raises: no call of remove_roi or remove_rois, also
\* with items that are not among the ROIs, ends in an error.
C14_RemovalNeverRaises == last_event # "KeyError"

\* C15: a pointer event dispatched while the current tool is no key of the
\* tool table is fatal: the widget is never found running, the event
\* handled, with such a tool.
C15_UnmappedToolIsFatal ==
    current_tool \notin ToolKeys => last_event \notin {"press", "move", "release"}

\* the edges each handle owns
OwnsLeft(k) == k \in {handleTopLeft, handleMiddleLeft, handleBottomLeft}
OwnsRight(k) == k \in {handleTopRight, handleMiddleRight, handleBottomRight}
OwnsTop(k) == k \in {handleTopLeft, handleTopMiddle, handleTopRight}
OwnsBottom(k) == k \in {handleBottomLeft, handleBottomMiddle, handleBottomRight}

\* the rectangle between the edges l, r, t, b, whatever their order
Between(l, r, t, b) == QRectF(Min(l, r), Min(t, b), Abs(r - l), Abs(b - t))

\* the rectangle base with the edges handle k owns put where they were in
\* the rectangle snap, moved by d, and normalized
Resized(base, snap, k, d) ==
    Between(IF OwnsLeft(k) THEN snap.x + d[1] ELSE base.x,
            IF OwnsRight(k) THEN snap.x + snap.w + d[1] ELSE base.x + base.w,
            IF OwnsTop(k) THEN snap.y + d[2] ELSE base.y,
            IF OwnsBottom(k) THEN snap.y + snap.h + d[2] ELSE base.y + base.h)

\* one resize step gave ROI r the normalization of its candidate rectangle:
\* its rectangle with the edges of the grabbed handle moved, from where they
\* were at the press, by the way of the pointer since the press
ResizeStepNormalized(r) ==
    (r \in rois /\ last_event' = "item_move" /\ item[r].handleSelected # None) =>
        rect(item'[r]) =
            Resized(rect(item[r]), gesture.pre[r], item[r].handleSelected,
                    <<gesture'.at[1] - gesture.p[1], gesture'.at[2] - gesture.p[2]>>)

\* C16: every ROI has width >= 0 and height >= 0 at all times, and after
\* every resize step, whatever the handle and the pointer position, its
\* rectangle is the normalization of the candidate rectangle (width |w|,
\* height |h|, the corner moved back by them when they were negative).
C16_ResizeKeepsRectNormalized ==
    /\ [](\A r \in rois : item[r].w >= 0 /\ item[r].h >= 0)
    /\ [][\A r \in Ids : ResizeStepNormalized(r)]_vars

\* the bottom right handle of (0,0,10,10), grabbed at (10,10), was dragged
\* to (-5,-5) and the ROI is (-5,-5,5,5)
C16_Witness ==
    /\ last_event = "item_move"
    /\ gesture.kind = "resize"
    /\ gesture.p = <<10, 10>> /\ gesture.at = <<-5, -5>>
    /\ \E r \in rois :
          /\ item[r].handleSelected = handleBottomRight
          /\ gesture.pre[r] = QRectF(0, 0, 10, 10)
          /\ rect(item[r]) = QRectF(-5, -5, 5, 5)

\* C17: within one resize gesture the rectangle after each move is the
\* normalization of the rectangle the ROI had at the press with only the
\* edges of the grabbed handle displaced by pointer position minus press
\* position: it does not depend on the earlier moves of the gesture.
C17_ResizeDependsOnPressOnly ==
    (gesture.kind = "resize" /\ last_event = "item_move") =>
        \A r \in DOMAIN gesture.pre :
            item[r].handleSelected # None =>
                rect(item[r]) =
                    Resized(gesture.pre[r], gesture.pre[r], item[r].handleSelected,
                            <<gesture.at[1] - gesture.p[1],
                              gesture.at[2] - gesture.p[2]>>)

\* the scale changes only by a release of the Zoom tool, by one factor 1.2
\* up or down, or by a reset
ScaleChangesByZoomOnly ==
    view_scale' # view_scale =>
        \/ last_event' = "fit" /\ view_scale' = 0
        \/ /\ current_tool = "Zoom" /\ last_event' = "release"
           /\ view_scale' \in {view_scale - 1, view_scale + 1}

\* a release of the Zoom tool multiplies the scale by 1 / 1.2 with Alt and
\* by 1.2 otherwise
ZoomReleaseScales ==
    /\ (current_tool = "Zoom" /\ last_event' = "release") =>
          view_scale' # view_scale
    /\ (gesture.kind = "zoom" /\ ~gesture.done /\ gesture'.kind = "zoom"
           /\ gesture'.done) =>
          view_scale' = view_scale +
                          (IF gesture'.mod = "AltModifier" THEN -1 ELSE 1)

C19_ResetRestoresView ==
    last_event = "fit" =>
        /\ view_scale = 0
        /\ pix_map_pos = <<0, 0>>
        /\ text_group_pos = <<0, 0>>

\* a reset has just been made after a pan that moved an ROI
C19_Witness ==
    /\ last_event = "fit"
    /\ \E r \in rois : item[r].px # 0
    /\ pix_map_pos = <<0, 0>>

\* C20: for all rects a and b, zero-size ones included, is_overlap(a, b) is
\* true exactly when a.x + a.width > b.x, b.x + b.width > a.x,
\* a.y + a.height > b.y and b.y + b.height > a.y; (0,0,10,10) and
\* (10,0,10,10), which share one edge only, do not overlap.
C20_OverlapIsStrict ==
    last_event = "is_overlap" =>
        LET a == gesture.rect1
            b == gesture.rect2
        IN  /\ gesture.result <=> (/\ a.x + a.w > b.x
                                   /\ b.x + b.w > a.x
                                   /\ a.y + a.h > b.y
                                   /\ b.y + b.h > a.y)
            /\ (a = QRectF(0, 0, 10, 10) /\ b = QRectF(10, 0, 10, 10))
                   => ~gesture.result

\* the two rects sharing an edge have been tested and found apart
C20_Witness ==
    /\ last_event = "is_overlap"
    /\ gesture.rect1 = QRectF(0, 0, 10, 10)
    /\ gesture.rect2 = QRectF(10, 0, 10, 10)
    /\ ~gesture.result

\* a zero-size rect inside a proper one has been tested and found to overlap
C20_WitnessZeroSize ==
    /\ last_event = "is_overlap"
    /\ gesture.rect1 = QRectF(0, 0, 10, 10)
    /\ gesture.rect2.w = 0 /\ gesture.rect2.h = 0
    /\ gesture.result

\* C21: is_overlap(a, b) = is_overlap(b, a) for all rects a and b, and a
\* rect of width > 0 and height > 0 overlaps itself.
C21_OverlapIsSymmetric ==
    last_event = "is_overlap" =>
        LET a == gesture.rect1
            b == gesture.rect2
        IN  /\ gesture.result = is_overlap(b, a)
            /\ (a = b /\ a.w > 0 /\ a.h > 0) => gesture.result

\* two different rects have been found to overlap
C21_Witness ==
    /\ last_event = "is_overlap"
    /\ gesture.rect1 # gesture.rect2
    /\ gesture.rect1.x < gesture.rect2.x
    /\ gesture.result

\* a proper rect has been tested against itself
C21_WitnessSelf ==
    /\ last_event = "is_overlap"
    /\ gesture.rect1 = gesture.rect2
    /\ gesture.rect1.w > 0 /\ gesture.rect1.h > 0
    /\ gesture.result

\* the rectangle spanned by two points
Span(px, py, cx, cy) ==
    QRectF(Min(px, cx), Min(py, cy), Abs(cx - px), Abs(cy - py))

\* a move handled by _draw_roi while the draw flag is set
ActiveDrawMove ==
    /\ current_tool \in RoiTypes
    /\ drawing.flag
    /\ last_event' = "move"

\* C22: on every pointer move of an active draw gesture the shape being
\* drawn gets the bounds (min(pressX, curX), min(pressY, curY),
\* |curX - pressX|, |curY - pressY|), wherever the pointer is relative to
\* the press point: its width and height are never negative and the press
\* point is one of its corners.
C22_DrawMoveSpansPressAndPointer ==
    [][ActiveDrawMove =>
          LET b == sceneRect(item'[drawing_roi])
          IN  /\ b.w >= 0 /\ b.h >= 0
              /\ drawing.x \in {b.x, b.x + b.w}
              /\ drawing.y \in {b.y, b.y + b.h}
              /\ \E p \in DrawPoints : b = Span(drawing.x, drawing.y, p[1], p[2])
              /\ gesture'.kind = "draw" =>
                    b = Span(drawing.x, drawing.y, gesture'.at[1], gesture'.at[2])]_vars

\* the same for the rectangle in the item's own coordinates, which is what
\* setRect assigns
C22_ItemRectSpansPressAndPointer ==
    [][ActiveDrawMove =>
          LET it == item'[drawing_roi]
          IN  /\ \E p \in DrawPoints :
                    QRectF(it.x, it.y, it.w, it.h) = Span(drawing.x, drawing.y, p[1], p[2])
              /\ gesture'.kind = "draw" =>
                    QRectF(it.x, it.y, it.w, it.h) =
                        Span(drawing.x, drawing.y, gesture'.at[1], gesture'.at[2])]_vars

\* the same for a gesture that no key and no button interrupted
C22_UninterruptedDrawMove ==
    [][(ActiveDrawMove /\ gesture'.kind = "draw") =>
          sceneRect(item'[drawing_roi]) =
              Span(drawing.x, drawing.y, gesture'.at[1], gesture'.at[2])]_vars

\* an ROI has a resize in progress
Resizing(it) == it.handleSelected # None

\* C23: set_mutable(False) on an ROI with a resize in progress (handle
\* grabbed, press position and press rectangle stored) clears that state,
\* and a pointer move delivered to the ROI afterwards leaves its rectangle
\* as it is.
C23_SetImmutableEndsResize ==
    [][\A r \in rois :
          /\ (last_event' = "button" /\ Resizing(item[r]) /\ ~item'[r].mutable)
                => /\ item'[r].handleSelected = None
                   /\ item'[r].mousePressPos = None
                   /\ item'[r].mousePressRect = None
          /\ (last_event' = "item_move" /\ ~item[r].mutable)
                => sceneRect(item'[r]) = sceneRect(item[r])]_vars

\* the second half alone: a move delivered to an immutable ROI resizes it
C23_MoveLeavesImmutableRoi ==
    [][\A r \in rois :
          (last_event' = "item_move" /\ ~item[r].mutable)
             => sceneRect(item'[r]) = sceneRect(item[r])]_vars

\* C24: add_roi(kind, x, y, w, h) makes one new ROI, which is in _rois, has
\* the given kind and bounds and is immutable, whatever the tool is; every
\* other ROI keeps its membership, bounds and selection, and the number of
\* ROIs grows by exactly one.
C24_AddRoiAddsOneImmutableRoi ==
    [][last_event' = "add_roi" =>
          /\ rois' = rois \cup {NextId}
          /\ NextId \notin rois
          /\ Cardinality(rois') = Cardinality(rois) + 1
          /\ \E t \in RoiTypes, r0 \in ApiRects :
                /\ item'[NextId].roi_type = t
                /\ sceneRect(item'[NextId]) = r0
          /\ ~item'[NextId].mutable
          /\ ~item'[NextId].selected
          /\ \A r \in DOMAIN item : item'[r] = item[r]]_vars

\* an ROI has just been added in the Arrow tool next to a selected one
C24_Witness ==
    /\ last_event = "add_roi"
    /\ current_tool = "Arrow"
    /\ \E r \in rois : item[r].selected
    /\ \E r \in rois : ~item[r].mutable

\* C25: _rois loses members only through remove_roi, remove_rois, clear_roi
\* and the Delete key: no pointer event of any tool, no tool switch and no
\* reset removes an ROI.
C25_RoisLeaveOnlyByRemoval ==
    [][rois \subseteq rois' \/ last_event' \in {"remove", "clear", "delete"}]_vars

\* a duplicate gesture has ended, its copy merged, with an ROI drawn before
C25_Witness ==
    /\ gesture.kind = "duplicate"
    /\ gesture.done
    /\ Cardinality(rois) > gesture.n0
    /\ view_scale = 0

\* a press handled by _arrow while no rubber band is active
ArrowPressStep ==
    /\ current_tool = "Arrow"
    /\ last_event' = "press"
    /\ ~selecting.flag

\* C26: a press in the Arrow tool starts the rubber band if and only if
\* the Control modifier is not held and the press point overlaps no ROI
\* (strict overlap of the ROI's bounds with a zero-size rect at the point);
\* otherwise the select flag stays false.
C26_BandStartsOffRoisOnly ==
    [][ArrowPressStep =>
          (selecting'.flag <=>
              /\ gesture'.kind # "duplicate"
              /\ \A r \in rois :
                    ~is_overlap(sceneRect(item[r]),
                                QRectF(gesture'.p[1], gesture'.p[2], 0, 0)))]_vars

\* the same with the ROI's bounding rectangle, which is what _arrow tests
C26_BandStartsOffBoundingRects ==
    [][ArrowPressStep =>
          (selecting'.flag <=>
              /\ gesture'.kind # "duplicate"
              /\ \A r \in rois :
                    ~is_overlap(sceneBoundingRect(item[r]),
                                QRectF(gesture'.p[1], gesture'.p[2], 0, 0)))]_vars

\* the ROIs a duplicate press copied
Originals == {gesture.src[n] : n \in DOMAIN gesture.src}

\* C27: between the press and the release of a duplicate gesture the
\* copies are selected and the originals are not; after its release every
\* copy merged into _rois and every original is unselected and shows no
\* handles.
C27_DuplicateSelectsCopiesOnly ==
    gesture.kind = "duplicate" =>
        IF gesture.done
        THEN \A r \in (DOMAIN gesture.src \cap rois) \cup Originals :
                ~item[r].selected /\ ~item[r].show_handle
        ELSE /\ \A n \in DOMAIN gesture.src : item[n].selected
             /\ \A r \in Originals : ~item[r].selected

\* the ROIs whose bounds held the press point of the gesture
UnderPress ==
    {r \in DOMAIN gesture.pre :
        is_overlap(gesture.pre[r], QRectF(gesture.p[1], gesture.p[2], 0, 0))}

\* C28: a duplicate press with no ROI selected copies exactly one ROI when
\* at least one ROI is under the press point, however many are, and copies
\* nothing when none is.
C28_DuplicatePicksOneRoi ==
    (gesture.kind = "duplicate" /\ last_event = "press" /\ gesture.ksel = 0) =>
        Cardinality(duplicated_rois) = IF UnderPress # {} THEN 1 ELSE 0

\* never more than one copy, and none away from every bounding rectangle
C28_DuplicatePicksAtMostOne ==
    (gesture.kind = "duplicate" /\ last_event = "press" /\ gesture.ksel = 0) =>
        /\ Cardinality(duplicated_rois) <= 1
        /\ (\A r \in rois : ~InRoi(item[r], gesture.p)) => duplicated_rois = {}

\* C29: a release of the Delete key while the tool is Rect, Ellipse, Zoom
\* or Pan, temporary Pan included, leaves _rois as it is.
C29_DeleteActsInArrowOnly ==
    [][(last_event' = "delete" /\ current_tool # "Arrow") => rois' = rois]_vars

\* C30: the offset between the scene position of every ROI and that of the
\* image layer stays what it was: every step, pan moves and resets
\* included, displaces each ROI and the image by the same amount.
C30_RoisStayRegistered ==
    [][\A r \in rois \cap rois' :
          /\ item'[r].px - item[r].px = pix_map_pos'[1] - pix_map_pos[1]
          /\ item'[r].py - item[r].py = pix_map_pos'[2] - pix_map_pos[2]]_vars

\* the same for every step but a reset
C30_PanKeepsRoisRegistered ==
    [][last_event' # "fit" =>
          \A r \in rois \cap rois' :
             /\ item'[r].px - item[r].px = pix_map_pos'[1] - pix_map_pos[1]
             /\ item'[r].py - item[r].py = pix_map_pos'[2] - pix_map_pos[2]]_vars

\* C31: in every reachable state the tool is one of Arrow, Rect, Ellipse,
\* Zoom and Pan, whatever the order of tool-button clicks and space key
\* events, a space release without a press before it included.
C31_ToolIsOneOfFive ==
    current_tool \in Tools

\* the same once a tool has been remembered in _last_tool
C31_ToolIsOneOfFiveOnceRemembered ==
    last_tool # "" => current_tool \in Tools

=============================================================================
